---- MODULE Spec2Model ----
(***************************************************************************)
(* Model of the teacher-document ingestion pipeline of mathmentor:         *)
(*   - api/routers/teacher.py        upload_document                       *)
(*   - tutoring/document_processor.py DocumentProcessor.process_document   *)
(*   - data_processing/embeddings.py EmbeddingGenerator                    *)
(* The durable store (tables teacher_documents and document_chunks) and    *)
(* the embedding provider are the environment: each call to them either    *)
(* answers or raises, chosen nondeterministically.                         *)
(*                                                                         *)
(* process_document is a coroutine.  The supabase client is synchronous,   *)
(* so the only suspension point is the download inside                     *)
(* _extract_text_from_file (await client.get).  One invocation is          *)
(* therefore two atomic steps: Start (lines 51-80, up to the await) and    *)
(* ProcFinish (lines 80-151, after the await).  upload_document schedules  *)
(* the coroutine with asyncio.create_task, so its Start runs later         *)
(* (ProcStart); an awaited call runs Start at once (Invoke).               *)
(***************************************************************************)
EXTENDS Integers, Sequences, FiniteSets, Bags, TLC

\* ---------------------------------------------------------------- bounds
MaxDocs == 1
MaxRuns == 2
MaxChunks == 2
\* generate_embeddings_batch(texts, batch_size=100): the batch size is
\* scaled down so that a document of MaxChunks chunks spans several batches.
EmbedBatchSize == 1

\* The ids the store can give to documents: one more than Next lets upload,
\* for the runs of two documents side by side (FrameNext).
DocIds == 1..(MaxDocs + 1)

\* ------------------------------------------------------------ vocabulary
NoDoc == [status |-> "absent"]
Absent == -1
NoErr == "none"
NoEmbedding == <<>>

\* str(e) of the exceptions process_document can catch.
ErrStore == "store error"
ErrExtract == "download or parse error"
ErrEmptyText == "Failed to extract text from document"
ErrEmbed == "Failed to generate embeddings for batch"
ErrKey == "KeyError: embedding"

CallOutcome == {"ok", "raise"}
InsertOutcome == {"ok", "nodata", "raise"}

VARIABLES
  teacher_documents,  \* table teacher_documents: document_id -> row
  document_chunks,    \* table document_chunks: bag of rows
  runs,               \* the live process_document coroutines (a bag)
  created,            \* number of process_document calls made so far
  event,              \* what the last step did (history, read by properties)
  content_chunks,     \* table content_chunks: rows in table order
  call,               \* the last library call: its inputs and what it did
  math_concepts,      \* table math_concepts: rows in table order
  load_batch,         \* process_and_load_batch: its position and its input
  futures,            \* the jobs submitted to the thread pool, in order
  batch_results       \* the list process_and_load_batch returns

\* The state of the document pipeline and the state of the content library
\* (VectorStore, chunker, bulk loader); no operation touches both.
pipelineVars == <<teacher_documents, document_chunks, runs, created, event>>
libraryVars == <<content_chunks, call>>
loaderVars == <<math_concepts, load_batch, futures, batch_results>>
vars == <<pipelineVars, libraryVars, loaderVars>>

\* document.get('metadata', {}): what the rest of process_document reads of
\* the record it fetched.
Metadata(document) ==
  [chunk_count |-> document.chunk_count, error |-> document.error]

NoMetadata == [chunk_count |-> Absent, error |-> NoErr]

\* A coroutine created for document d that has not started to run.
Scheduled(d) == [pc |-> "scheduled", doc |-> d, metadata |-> NoMetadata]

\* The coroutine suspended in the download, holding the metadata it fetched.
Extracting(d, document) ==
  [pc |-> "extracting", doc |-> d, metadata |-> Metadata(document)]

Add(B, x) == B (+) SetToBag({x})
Remove(B, x) == B (-) SetToBag({x})

NoEvent ==
  [op |-> "none", doc |-> 0, outcome |-> "none",
   err |-> NoErr, count |-> Absent, chunked |-> FALSE,
   produced |-> 0, stored |-> 0, calls |-> 0, providerFailed |-> FALSE,
   failWrite |-> "none", writes |-> <<>>, concurrent |-> FALSE,
   sawReady |-> FALSE]

Min(a, b) == IF a < b THEN a ELSE b

\* select ... eq('document_id', d) on document_chunks.
ChunksOf(d) == {c \in BagToSet(document_chunks) : c.document_id = d}

\* Number of rows stored for document d.
RECURSIVE SumCopies(_, _)
SumCopies(B, S) ==
  IF S = {} THEN 0
  ELSE LET x == CHOOSE y \in S : TRUE
       IN CopiesIn(x, B) + SumCopies(B, S \ {x})

StoredCount(d) == SumCopies(document_chunks, ChunksOf(d))

FreeDocs == {d \in DocIds : teacher_documents[d] = NoDoc}
NextDoc == CHOOSE d \in FreeDocs : \A e \in FreeDocs : d <= e

\* ------------------------------------------------------- pure operators
\* The chunk drafts of document d after lines 93-101: n chunks in chunker
\* order, chunk_index = position, no embedding yet.
ChunkDrafts(d, n) ==
  [i \in 1..n |-> [chunk_index |-> i - 1, content |-> <<d, i - 1>>,
                   embedding |-> NoEmbedding]]

\* The vector the provider returns for one text.
Vec(text) == <<"vec", text>>

\* client.embeddings.create(input=batch): one vector per text, in order; a
\* short response lacks the vector of the last text.
ProviderCreate(batch, short) ==
  [i \in 1..(IF short THEN Len(batch) - 1 ELSE Len(batch)) |-> Vec(batch[i])]

\* The loop of generate_embeddings_batch from offset i on; failBatch is the
\* number of the provider call that raises (0: none raises), shortBatch the
\* number of the call whose response is short (0: none is), sent the
\* batches handed to the provider so far.
RECURSIVE EmbedLoop(_, _, _, _, _, _, _)
EmbedLoop(texts, batch_size, i, failBatch, shortBatch, all_embeddings, sent) ==
  IF i >= Len(texts)
    THEN [raised |-> FALSE, batch |-> 0, embeddings |-> all_embeddings,
          calls |-> Len(sent), sent |-> sent]
    ELSE IF failBatch = (i \div batch_size) + 1
      THEN [raised |-> TRUE, batch |-> (i \div batch_size) + 1,
            embeddings |-> <<>>, calls |-> Len(sent) + 1,
            sent |-> Append(sent, SubSeq(texts, i + 1,
                                         Min(i + batch_size, Len(texts))))]
      ELSE EmbedLoop(texts, batch_size, i + batch_size, failBatch,
                     shortBatch,
                     all_embeddings \o
                       ProviderCreate(SubSeq(texts, i + 1,
                                             Min(i + batch_size, Len(texts))),
                                      shortBatch = (i \div batch_size) + 1),
                     Append(sent, SubSeq(texts, i + 1,
                                         Min(i + batch_size, Len(texts)))))

\* A plausible bug: all the texts go to the provider in one call.
generate_embeddings_unbatched(texts, batch_size, failBatch, shortBatch) ==
  EmbedLoop(texts, Len(texts) + 1, 0, failBatch, shortBatch, <<>>, <<>>)

generate_embeddings_batch(texts, batch_size, failBatch, shortBatch) ==
  EmbedLoop(texts, batch_size, 0, failBatch, shortBatch, <<>>, <<>>)

\* A plausible bug: a failing batch is skipped and the vectors gathered so
\* far are returned instead of raising.
embed_chunks_partial(chunks, failBatch, shortBatch) ==
  LET texts == [i \in 1..Len(chunks) |-> chunks[i].content]
      res == generate_embeddings_batch(texts, EmbedBatchSize, failBatch,
                                       shortBatch)
      got == IF res.raised
               THEN ProviderCreate(SubSeq(texts, 1,
                                          (res.batch - 1) * EmbedBatchSize),
                                   FALSE)
               ELSE res.embeddings
  IN [raised |-> FALSE, batch |-> 0, calls |-> res.calls,
      chunks |-> [i \in 1..Len(chunks) |->
                    IF i <= Len(got)
                      THEN [chunks[i] EXCEPT !.embedding = got[i]]
                      ELSE chunks[i]]]

\* embed_chunks: texts of the chunks, one batched call, zip by position.
embed_chunks(chunks, failBatch, shortBatch) ==
  LET texts == [i \in 1..Len(chunks) |-> chunks[i].content]
      res == generate_embeddings_batch(texts, EmbedBatchSize, failBatch,
                                       shortBatch)
  IN [raised |-> res.raised, batch |-> res.batch, calls |-> res.calls,
      chunks |-> [i \in 1..Len(chunks) |->
                    IF i <= Len(res.embeddings)
                      THEN [chunks[i] EXCEPT !.embedding = res.embeddings[i]]
                      ELSE chunks[i]]]

\* The insert loop of process_document (lines 107-120) from position i on.
\* ins[i] is the store's answer to the i-th insert: "ok" persists the row and
\* returns it, "nodata" persists nothing and returns no row, "raise" raises.
\* rows is the bag of rows persisted so far (the store gives every row a fresh
\* chunk_id, so equal rows add up), chunk_ids the length of the list of ids.
RECURSIVE InsertLoop(_, _, _, _, _, _)
InsertLoop(d, cs, ins, i, rows, chunk_ids) ==
  IF i > Len(cs)
    THEN [raised |-> FALSE, err |-> NoErr, rows |-> rows,
          chunk_ids |-> chunk_ids]
    ELSE IF cs[i].embedding = NoEmbedding
      THEN [raised |-> TRUE, err |-> ErrKey, rows |-> rows,
            chunk_ids |-> chunk_ids]
      ELSE IF ins[i] = "raise"
        THEN [raised |-> TRUE, err |-> ErrStore, rows |-> rows,
              chunk_ids |-> chunk_ids]
        ELSE IF ins[i] = "nodata"
          THEN InsertLoop(d, cs, ins, i + 1, rows, chunk_ids)
          ELSE InsertLoop(d, cs, ins, i + 1,
                          rows (+) SetToBag({[document_id |-> d,
                                              chunk_index |-> cs[i].chunk_index,
                                              content |-> cs[i].content,
                                              embedding |-> cs[i].embedding]}),
                          chunk_ids + 1)

\* Line 61-64: the idempotency check.
AlreadyProcessedNever(document, chunks_check) == FALSE

AlreadyProcessed(document, chunks_check) ==
  document.status = "ready" /\ chunks_check # {}

\* Line 67: document.get('metadata', {}).get('chunk_count', 0).
ReturnedCount(document) ==
  IF document.chunk_count = Absent THEN 0 ELSE document.chunk_count

\* Lines 123-130: the row after the update made on success; the metadata is
\* the metadata read at the start of the run plus chunk_count.
ReadyRow(row, metadata, n_ids) ==
  [row EXCEPT !.status = "ready", !.chunk_count = n_ids,
              !.error = metadata.error]

\* Lines 141-147: the row after the update made by the failure handler; the
\* metadata is the metadata read at the start of the run plus error.
FailedRow(row, metadata, e) ==
  [row EXCEPT !.status = "failed", !.chunk_count = metadata.chunk_count,
              !.error = e]

\* One status write, as recorded in event.writes.
Write(d, old, new) == [doc |-> d, old |-> old, new |-> new]

\* No library call made yet.
NoCall == [op |-> "none"]

\* No process_and_load_batch call has been made.
NoBatch == [pc |-> "idle"]

Init ==
  /\ teacher_documents = [d \in DocIds |-> NoDoc]
  /\ document_chunks = EmptyBag
  /\ runs = EmptyBag
  /\ created = 0
  /\ event = NoEvent
  /\ content_chunks = <<>>
  /\ call = NoCall
  /\ math_concepts = <<>>
  /\ load_batch = NoBatch
  /\ futures = <<>>
  /\ batch_results = <<>>

\* ---------------------------------------------------------------- actions
\* upload_document (teacher.py 287-334): insert the record with status
\* 'processing', then construct a DocumentProcessor and schedule
\* process_document; when that raises (ctor = "raise", e.g. no
\* OPENAI_API_KEY), mark the record ready instead, ignoring a failed update.
\* file stands for the uploaded file: the number of chunks the chunker makes
\* of its text, or Absent when the extraction yields no text at all.
upload_document(file, ctor, fallback) ==
  /\ FreeDocs # {}
  /\ ctor = "ok" => created < MaxRuns /\ fallback = "ok"
  /\ LET d == NextDoc
         row == [status |-> "processing", chunk_count |-> Absent,
                 error |-> NoErr, file |-> file]
         ev == [NoEvent EXCEPT !.op = "upload", !.doc = d]
     IN IF ctor = "ok"
          THEN /\ teacher_documents' = [teacher_documents EXCEPT ![d] = row]
               /\ runs' = Add(runs, Scheduled(d))
               /\ created' = created + 1
               /\ event' = [ev EXCEPT
                              !.writes = <<Write(d, "absent", "processing")>>]
          ELSE /\ teacher_documents' =
                    [teacher_documents EXCEPT ![d] =
                       IF fallback = "ok"
                         THEN [row EXCEPT !.status = "ready"]
                         ELSE row]
               /\ UNCHANGED <<runs, created>>
               /\ event' = [ev EXCEPT !.writes =
                              IF fallback = "ok"
                                THEN <<Write(d, "absent", "processing"),
                                       Write(d, "processing", "ready")>>
                                ELSE <<Write(d, "absent", "processing")>>]
  /\ UNCHANGED <<document_chunks, libraryVars, loaderVars>>

\* The uploaded files: no text, text without any chunk, and as many chunks
\* as the bound allows.
Files == {Absent, 0, MaxChunks}

\* The store answers every insert.
AllOk == [i \in 1..MaxChunks |-> "ok"]

\* Another coroutine for the same document is between its write of
\* 'processing' and its end.
HeldByOther(others, d) ==
  \E q \in BagToSet(others) : q.doc = d /\ q.pc = "extracting"

\* The except block (138-151) once `document` is bound: write status failed
\* with the error added to the metadata read at the start of the run, swallow
\* a failure of that write (fw = "raise"), re-raise.
HandleFailure(others, d, metadata, e, fw, ev) ==
  /\ teacher_documents' =
       IF fw = "ok"
         THEN [teacher_documents EXCEPT
                 ![d] = FailedRow(teacher_documents[d], metadata, e)]
         ELSE teacher_documents
  /\ runs' = others
  /\ event' = [ev EXCEPT
                 !.outcome = "raised", !.err = e,
                 !.failWrite = fw,
                 !.writes =
                    IF fw = "ok"
                      THEN <<Write(d, teacher_documents[d].status, "failed")>>
                      ELSE <<>>]

\* process_document up to the await of the download (51-80).
Start(others, d, fetch, check, upd, fw) ==
  /\ UNCHANGED <<libraryVars, loaderVars>>
  /\ LET document == teacher_documents[d]
         ev == [NoEvent EXCEPT
                  !.op = "start", !.doc = d,
                  \* the run read status ready and found a chunk
                  !.sawReady = /\ fetch = "ok" /\ check = "ok"
                               /\ document.status = "ready"
                               /\ ChunksOf(d) # {}]
         checked == document.status = "ready"
         hit == AlreadyProcessed(document, ChunksOf(d))
     IN \* each outcome of the environment is listed once
        /\ fetch = "raise" => check = "ok" /\ upd = "ok" /\ fw = "ok"
        /\ ~checked => check = "ok"
        /\ check = "raise" => upd = "ok"
        /\ (check = "ok" /\ hit) => upd = "ok"
        /\ (check = "ok" /\ upd = "ok") => fw = "ok"
        /\ IF fetch = "raise"
             \* `document` is unbound: the handler's own update raises
             \* NameError, which the bare except swallows.
             THEN /\ runs' = others
                  /\ event' = [ev EXCEPT !.outcome = "raised",
                                         !.err = ErrStore]
                  /\ UNCHANGED <<teacher_documents, document_chunks>>
             ELSE IF checked /\ check = "raise"
               THEN /\ HandleFailure(others, d, Metadata(document),
                                       ErrStore, fw, ev)
                    /\ UNCHANGED document_chunks
               ELSE IF hit
                 THEN /\ runs' = others
                      /\ event' = [ev EXCEPT
                                     !.outcome = "returned",
                                     !.count = ReturnedCount(document)]
                      /\ UNCHANGED <<teacher_documents, document_chunks>>
                 ELSE IF upd = "raise"
                   THEN /\ HandleFailure(others, d, Metadata(document),
                                         ErrStore, fw, ev)
                        /\ UNCHANGED document_chunks
                   ELSE /\ teacher_documents' =
                             [teacher_documents EXCEPT
                                ![d].status = "processing"]
                        /\ runs' = Add(others, Extracting(d, document))
                        /\ event' = [ev EXCEPT
                                       !.outcome = "suspended",
                                       !.concurrent = HeldByOther(others, d),
                                       !.writes =
                                          <<Write(d, document.status,
                                                  "processing")>>]
                        /\ UNCHANGED document_chunks

\* The coroutine scheduled by upload_document starts to run.
ProcStart(r, fetch, check, upd, fw) ==
  /\ r \in BagToSet(runs)
  /\ r.pc = "scheduled"
  /\ created' = created
  /\ Start(Remove(runs, r), r.doc, fetch, check, upd, fw)

\* A further call `await process_document(document_id)` on an uploaded
\* document (a retry): an awaited coroutine runs at once up to its first
\* suspension.
Invoke(d, fetch, check, upd, fw) ==
  /\ teacher_documents[d] # NoDoc
  /\ created < MaxRuns
  /\ created' = created + 1
  /\ Start(runs, d, fetch, check, upd, fw)

\* process_document after the download (80-151): extraction result, chunking,
\* embedding, the insert loop, the final status write or the failure handler.
\* ext = "raise": the download or the parser raised.  Here every response of
\* the embedding provider has one vector per text; responses with fewer
\* vectors are explored by EmbedAndStore.
ProcFinish(r, ext, failBatch, ins, fin, fw) ==
  /\ r \in BagToSet(runs)
  /\ r.pc = "extracting"
  /\ created' = created
  /\ UNCHANGED <<libraryVars, loaderVars>>
  /\ LET d == r.doc
         metadata == r.metadata
         \* the text of the file at file_url, as chunks
         n == teacher_documents[d].file
         ev == [NoEvent EXCEPT !.op = "finish", !.doc = d]
     IN IF ext = "raise" \/ n = Absent
          THEN /\ failBatch = 0 /\ ins = AllOk /\ fin = "ok"
               /\ HandleFailure(Remove(runs, r), d, metadata,
                                IF ext = "raise" THEN ErrExtract
                                                 ELSE ErrEmptyText,
                                fw, ev)
               /\ UNCHANGED document_chunks
          ELSE
            /\ failBatch <= (n + EmbedBatchSize - 1) \div EmbedBatchSize
            /\ failBatch # 0 => ins = AllOk /\ fin = "ok"
            /\ \A i \in 1..MaxChunks :
                 (i > n \/ \E j \in 1..(i - 1) : ins[j] = "raise")
                   => ins[i] = "ok"
            /\ (\E i \in 1..MaxChunks : ins[i] = "raise") => fin = "ok"
            /\ (failBatch = 0 /\ fin = "ok"
                /\ \A i \in 1..MaxChunks : ins[i] # "raise") => fw = "ok"
            /\ \E emb \in {embed_chunks(ChunkDrafts(d, n), failBatch, 0)} :
               \E st \in {IF emb.raised
                            THEN [raised |-> TRUE, err |-> ErrEmbed,
                                  rows |-> EmptyBag, chunk_ids |-> 0]
                            ELSE InsertLoop(d, emb.chunks, ins, 1,
                                            EmptyBag, 0)} :
               \E ev2 \in {[ev EXCEPT
                              !.chunked = TRUE, !.produced = n,
                              !.calls = emb.calls,
                              !.concurrent = HeldByOther(Remove(runs, r), d),
                              !.providerFailed = (failBatch # 0),
                              !.stored = BagCardinality(st.rows)]} :
                 /\ document_chunks' = document_chunks (+) st.rows
                 /\ IF emb.raised
                      THEN HandleFailure(Remove(runs, r), d, metadata,
                                         ErrEmbed, fw, ev2)
                      ELSE IF st.raised
                        THEN HandleFailure(Remove(runs, r), d, metadata,
                                           st.err, fw, ev2)
                        ELSE IF fin = "raise"
                          THEN HandleFailure(Remove(runs, r), d, metadata,
                                             ErrStore, fw, ev2)
                          ELSE /\ teacher_documents' =
                                    [teacher_documents EXCEPT ![d] =
                                       ReadyRow(teacher_documents[d], metadata,
                                                st.chunk_ids)]
                               /\ runs' = Remove(runs, r)
                               /\ event' =
                                    [ev2 EXCEPT
                                       !.outcome = "returned",
                                       !.count = st.chunk_ids,
                                       !.writes =
                                         <<Write(d,
                                                 teacher_documents[d].status,
                                                 "ready")>>]

Next ==
  \/ /\ Cardinality(DocIds \ FreeDocs) < MaxDocs
     /\ \E file \in Files, ctor \in CallOutcome,
           fallback \in CallOutcome :
          upload_document(file, ctor, fallback)
  \/ \E d \in DocIds :
       /\ teacher_documents[d] # NoDoc
       /\ \E fetch \in CallOutcome, check \in CallOutcome,
             upd \in CallOutcome, fw \in CallOutcome :
            Invoke(d, fetch, check, upd, fw)
  \/ \E r \in BagToSet(runs) :
       /\ r.pc = "scheduled"
       /\ \E fetch \in CallOutcome, check \in CallOutcome,
             upd \in CallOutcome, fw \in CallOutcome :
            ProcStart(r, fetch, check, upd, fw)
  \/ \E r \in BagToSet(runs) :
       /\ r.pc = "extracting"
       /\ \E ext \in CallOutcome :
            \E failBatch \in IF ext = "ok" THEN 0..MaxChunks ELSE {0} :
              \E ins \in IF ext = "ok" /\ failBatch = 0
                            THEN [1..MaxChunks -> InsertOutcome]
                            ELSE {AllOk} :
                \E fin \in CallOutcome, fw \in CallOutcome :
                  ProcFinish(r, ext, failBatch, ins, fin, fw)

Spec == Init /\ [][Next]_vars

\* ----------------------------------------------------------- properties
DocOf(d) == teacher_documents[d]
Uploaded == {d \in DocIds : teacher_documents[d] # NoDoc}
Finished == event.op \in {"start", "finish"}
              /\ event.outcome \in {"returned", "raised"}

StatusSteps ==
  {<<"pending", "processing">>, <<"processing", "ready">>,
   <<"processing", "failed">>}

\* C1: every write of a Source's status follows pending -> processing,
\* processing -> ready or processing -> failed; a Source that is already
\* processing is never written to processing again.
C1_StatusMonotone ==
  \A i \in 1..Len(event.writes) :
    event.writes[i].old # "absent"
      => <<event.writes[i].old, event.writes[i].new>> \in StatusSteps

\* C2: a run that reads status ready and finds a chunk for the Source calls
\* the embedding provider zero times, inserts nothing, leaves the Source's row
\* unchanged and returns success with the persisted chunk count.
C2_ReadyShortCircuit ==
  [][event'.sawReady =>
       /\ event'.outcome = "returned"
       /\ event'.calls = 0
       /\ document_chunks' = document_chunks
       /\ teacher_documents' = teacher_documents
       /\ teacher_documents[event'.doc].chunk_count # Absent
       /\ event'.count = teacher_documents[event'.doc].chunk_count]_vars

C2_Witness ==
  /\ event.sawReady
  /\ event.outcome = "returned"
  /\ event.count > 0

\* C3: a run that fails at any step ends with the Source failed and the error
\* persisted, and a finished run never leaves the Source in processing
\* (stated for the runs whose failure write the store did not refuse).
C3_FailureMarksFailed ==
  (Finished /\ event.failWrite # "raise") =>
    /\ DocOf(event.doc).status \in {"ready", "failed"}
    /\ event.outcome = "raised" =>
         /\ DocOf(event.doc).status = "failed"
         /\ DocOf(event.doc).error = event.err

\* C4: process_document never propagates an exception to its caller.
C4_NeverRaises == event.outcome # "raised"

C6_ReadyOnlyIfAllStored ==
  (event.op = "finish" /\ event.outcome = "returned")
    => event.stored = event.produced

\* C7: a ready Source's persisted chunk count equals the number of chunks
\* stored for it.
C7_CountMatchesStore ==
  \A d \in Uploaded :
    (DocOf(d).status = "ready" /\ DocOf(d).chunk_count # Absent)
      => DocOf(d).chunk_count = StoredCount(d)

\* C8: no two chunks stored for one Source share a chunk_index.
C8_UniqueChunkIndex ==
  \A c \in BagToSet(document_chunks) :
    /\ CopiesIn(c, document_chunks) = 1
    /\ \A e \in BagToSet(document_chunks) :
         (e.document_id = c.document_id /\ e.chunk_index = c.chunk_index)
           => e = c

\* C9: while one run holds the Source in processing, no other run chunks,
\* embeds or inserts for that Source.
C9_SingleWriter == event.chunked => ~event.concurrent

\* C10: a Source carries an error message only while its status is failed.
C10_ErrorOnlyWhenFailed ==
  \A d \in Uploaded : DocOf(d).error # NoErr => DocOf(d).status = "failed"

\* ============================================================ VectorStore
\* data_processing/vector_store.py: store_chunks and similarity_search over
\* the table content_chunks.  Scores are cosine similarities in hundredths.
MaxRows == 2
MaxK == 2

Concepts == {1, 2}
\* concept_id = None (no filter).
NoConcept == 0

\* The value of a row's (or an input chunk's) 'embedding'.
List(v) == [kind |-> "list", v |-> v]          \* a list of numbers
Json(v) == [kind |-> "json", v |-> v]          \* a string json.loads parses to v
BadText == [kind |-> "text", v |-> <<>>]       \* a string json.loads rejects
NoVector == [kind |-> "missing", v |-> <<>>]   \* the key is absent

QueryVectors == {<<1, 0>>, <<3, 4>>}
StoredEmbeddings ==
  {List(<<1, 0>>), List(<<4, 3>>), Json(<<3, 4>>), List(<<0, 0>>),
   List(<<1>>), List(<<>>), BadText}
\* threshold: 0.0 and the default 0.7.
Thresholds == {0, 70}
Scale == 100

RECURSIVE SumSeq(_)
SumSeq(s) == IF s = <<>> THEN 0 ELSE Head(s) + SumSeq(Tail(s))

\* zip(vec1, vec2): pairs up to the shorter vector.
ZipProducts(vec1, vec2) ==
  [i \in 1..Min(Len(vec1), Len(vec2)) |-> vec1[i] * vec2[i]]

\* math.sqrt on the sums of squares that occur (all perfect squares).
Sqrt(x) == CHOOSE r \in 0..x : r * r <= x /\ (r + 1) * (r + 1) > x

\* _cosine_similarity (154-174).
cosine_similarity(vec1, vec2) ==
  LET dot_product == SumSeq(ZipProducts(vec1, vec2))
      magnitude1 == Sqrt(SumSeq(ZipProducts(vec1, vec1)))
      magnitude2 == Sqrt(SumSeq(ZipProducts(vec2, vec2)))
  IN IF magnitude1 = 0 \/ magnitude2 = 0
       THEN 0
       ELSE (Scale * dot_product) \div (magnitude1 * magnitude2)

\* chunk.get('embedding') is truthy (line 118).
Truthy(e) ==
  \/ e.kind \in {"json", "text"}
  \/ e.kind = "list" /\ e.v # <<>>

\* The fallback loop (117-140) from row i on: rows without an embedding,
\* with a string json.loads rejects or with a non-list are skipped; the others
\* are scored and kept when the score reaches the threshold.
RECURSIVE ScoreLoop(_, _, _, _, _)
ScoreLoop(rows, query_embedding, threshold, i, results) ==
  IF i > Len(rows) THEN results
  ELSE LET chunk == rows[i]
           e == chunk.embedding
           similarity == cosine_similarity(query_embedding, e.v)
       IN IF ~Truthy(e) \/ e.kind = "text"
            THEN ScoreLoop(rows, query_embedding, threshold, i + 1, results)
            ELSE IF similarity >= threshold
              THEN ScoreLoop(rows, query_embedding, threshold, i + 1,
                             Append(results,
                                    [chunk_id |-> chunk.chunk_id,
                                     concept_id |-> chunk.concept_id,
                                     similarity |-> similarity]))
              ELSE ScoreLoop(rows, query_embedding, threshold, i + 1,
                             results)

\* results.sort(key=similarity, reverse=True) (line 143): a stable sort,
\* equal scores keep their order.
RECURSIVE InsertDesc(_, _)
InsertDesc(x, s) ==
  IF s = <<>> THEN <<x>>
  ELSE IF Head(s).similarity >= x.similarity
    THEN <<Head(s)>> \o InsertDesc(x, Tail(s))
    ELSE <<x>> \o s

RECURSIVE SortLoop(_, _)
SortLoop(s, acc) ==
  IF s = <<>> THEN acc ELSE SortLoop(Tail(s), InsertDesc(Head(s), acc))

SortUnsorted(results) == results

SortDesc(results) == SortLoop(results, <<>>)

\* results[:limit] (line 144), limit >= 0.
TakeAll(results, limit) == results

Take(results, limit) == SubSeq(results, 1, Min(limit, Len(results)))

\* The base query (78-82): all rows, or the rows of one concept.
Filtered(table, concept_id) ==
  SelectSeq(table, LAMBDA r : concept_id = NoConcept
                                \/ r.concept_id = concept_id)

\* Lines 85-106: the RPC match_content_chunks.  native is what the call did,
\* data the rows it returned.  The search returns here only when the call
\* returned at least one row.
TryNativeRetry(native, data) ==
  IF native = "ok" /\ data # <<>>
    THEN [done |-> TRUE, result |-> data, trace |-> <<"native">>]
    ELSE [done |-> FALSE, result |-> <<>>,
          trace |-> IF native = "raise" THEN <<"native", "native">>
                                        ELSE <<"native">>]

TryNative(native, data) ==
  IF native = "ok" /\ data # <<>>
    THEN [done |-> TRUE, result |-> data, trace |-> <<"native">>]
    ELSE [done |-> FALSE, result |-> <<>>, trace |-> <<"native">>]

\* Lines 109-148: fetch the rows of the base query, score, sort, cut; a
\* failing fetch is caught and answered with the empty list.
FallbackScanRaising(table, query_embedding, limit, concept_id, threshold, fetch) ==
  IF fetch = "raise"
    THEN [outcome |-> "raised", result |-> <<>>]
    ELSE [outcome |-> "returned",
          result |-> Take(SortDesc(ScoreLoop(Filtered(table, concept_id),
                                             query_embedding, threshold,
                                             1, <<>>)),
                          limit)]

FallbackScan(table, query_embedding, limit, concept_id, threshold, fetch) ==
  IF fetch = "raise"
    THEN [outcome |-> "returned", result |-> <<>>]
    ELSE LET all_chunks == Filtered(table, concept_id)
         IN IF all_chunks = <<>>
              THEN [outcome |-> "returned", result |-> <<>>]
              ELSE [outcome |-> "returned",
                    result |-> Take(SortDesc(ScoreLoop(all_chunks,
                                                       query_embedding,
                                                       threshold, 1, <<>>)),
                                    limit)]

\* similarity_search (76-152) as a function of what the store answers.
Search(table, query_embedding, limit, concept_id, threshold, native, data, fetch) ==
  LET n == TryNative(native, data)
      fb == FallbackScan(table, query_embedding, limit, concept_id,
                         threshold, fetch)
  IN IF n.done
       THEN [outcome |-> "returned", tier |-> "native", result |-> n.result,
             trace |-> n.trace]
       ELSE [outcome |-> fb.outcome, tier |-> "fallback",
             result |-> fb.result, trace |-> n.trace \o <<"fallback">>]

\* The store's operator match_content_chunks(query_embedding, match_threshold,
\* match_count, concept_filter): the rows of the concept whose stored vector
\* has the query's dimension, scored by cosine similarity.
WellFormed(e, query_embedding) ==
  e.kind \in {"list", "json"} /\ Len(e.v) = Len(query_embedding)

NativeHits(table, query_embedding, concept_id, threshold) ==
  {[chunk_id |-> table[i].chunk_id, concept_id |-> table[i].concept_id,
    similarity |-> cosine_similarity(query_embedding, table[i].embedding.v)] :
     i \in {j \in 1..Len(table) :
              /\ concept_id = NoConcept \/ table[j].concept_id = concept_id
              /\ WellFormed(table[j].embedding, query_embedding)
              /\ cosine_similarity(query_embedding, table[j].embedding.v)
                   >= threshold}}

\* The rankings the operator may return: the match_count best hits, best
\* first; hits of equal score come in any order.
NativeRanked(table, query_embedding, limit, concept_id, threshold) ==
  LET H == NativeHits(table, query_embedding, concept_id, threshold)
      n == Min(limit, Cardinality(H))
  IN {s \in [1..n -> H] :
        /\ \A i, j \in 1..n : i < j =>
             s[i] # s[j] /\ s[i].similarity >= s[j].similarity
        /\ \A h \in H : (\A i \in 1..n : s[i] # h) =>
             \A i \in 1..n : s[i].similarity >= h.similarity}

\* The loop of store_chunks (31-53) from chunk i on.  ins[i] is the store's
\* answer to the i-th insert, as in InsertLoop.  Of a row only the columns
\* the search reads are kept; content, metadata and chunk_index are copied
\* from the chunk as they are.
RECURSIVE StoreLoop(_, _, _, _, _, _)
StoreLoop(chunks, concept_id, ins, i, table, chunk_ids) ==
  IF i > Len(chunks)
    THEN [raised |-> FALSE, at |-> 0, table |-> table, chunk_ids |-> chunk_ids]
    ELSE IF chunks[i].embedding = NoVector \/ ins[i] = "raise"
      THEN [raised |-> TRUE, at |-> i, table |-> table, chunk_ids |-> chunk_ids]
      ELSE IF ins[i] = "nodata"
        THEN StoreLoop(chunks, concept_id, ins, i + 1, table, chunk_ids)
        ELSE StoreLoop(chunks, concept_id, ins, i + 1,
                       Append(table,
                              [chunk_id |-> Len(table) + 1,
                               concept_id |-> concept_id,
                               embedding |-> chunks[i].embedding]),
                       Append(chunk_ids, Len(table) + 1))

\* The chunk lists handed to store_chunks: n chunks, each with one of the
\* embedding values or without the key.
ChunkLists ==
  UNION {[1..n -> StoredEmbeddings \cup {NoVector}] : n \in 1..MaxRows}

Chunks(embeddings) ==
  [i \in 1..Len(embeddings) |-> [embedding |-> embeddings[i]]]

\* The inputs of a store_chunks call: no more rows than the table has room
\* for, and an answer of the store only for the inserts that are made.
StoreInputs(embeddings, ins) ==
  /\ Len(content_chunks) + Len(embeddings) <= MaxRows
  /\ \A i \in 1..MaxRows :
       (i > Len(embeddings)
        \/ \E j \in 1..(i - 1) :
             ins[j] = "raise" \/ embeddings[j] = NoVector
        \/ embeddings[i] = NoVector) => ins[i] = "ok"

\* What the caller of store_chunks gets and what the call did.
StoreCall(embeddings, ins, st) ==
  [op |-> "store", embeddings |-> embeddings, ins |-> ins,
   outcome |-> IF st.raised THEN "raised" ELSE "returned",
   at |-> st.at,
   stored |-> Len(st.table) - Len(content_chunks),
   chunk_ids |-> IF st.raised THEN <<>> ELSE st.chunk_ids]

store_chunks_atomic(embeddings, concept_id, ins) ==
  /\ call = NoCall
  /\ StoreInputs(embeddings, ins)
  /\ \E st \in {StoreLoop(Chunks(embeddings), concept_id, ins, 1,
                          content_chunks, <<>>)} :
       /\ content_chunks' = IF st.raised THEN content_chunks ELSE st.table
       /\ call' = StoreCall(embeddings, ins,
                            [st EXCEPT !.table = IF st.raised THEN content_chunks
                                                 ELSE st.table])
  /\ UNCHANGED <<pipelineVars, loaderVars>>

store_chunks(embeddings, concept_id, ins) ==
  /\ call = NoCall
  /\ StoreInputs(embeddings, ins)
  /\ \E st \in {StoreLoop(Chunks(embeddings), concept_id, ins, 1,
                          content_chunks, <<>>)} :
       /\ content_chunks' = st.table
       /\ call' = StoreCall(embeddings, ins, st)
  /\ UNCHANGED <<pipelineVars, loaderVars>>

similarity_search(query_embedding, limit, concept_id, threshold, native, data, fetch) ==
  /\ call = NoCall
  /\ native = "raise" => data = <<>>
  /\ (native = "ok" /\ data # <<>>) => fetch = "ok"
  /\ \E res \in {Search(content_chunks, query_embedding, limit, concept_id,
                        threshold, native, data, fetch)} :
       call' = [op |-> "search", query_embedding |-> query_embedding,
                limit |-> limit, concept_id |-> concept_id,
                threshold |-> threshold, native |-> native, fetch |-> fetch,
                outcome |-> res.outcome, tier |-> res.tier,
                trace |-> res.trace, result |-> res.result]
  /\ UNCHANGED <<content_chunks, pipelineVars, loaderVars>>

\* The caller has taken the result of the call; the next call can be made.
Return ==
  /\ call # NoCall
  /\ call' = NoCall
  /\ UNCHANGED <<content_chunks, pipelineVars, loaderVars>>

StoreNext ==
  \/ Return
  \/ /\ call = NoCall
     /\ Len(content_chunks) < MaxRows
     /\ \E embeddings \in ChunkLists, concept_id \in Concepts,
           ins \in [1..MaxRows -> InsertOutcome] :
          store_chunks(embeddings, concept_id, ins)
  \/ /\ call = NoCall
     /\ \E query_embedding \in QueryVectors, limit \in 0..MaxK,
           concept_id \in Concepts \cup {NoConcept},
           threshold \in Thresholds, native \in CallOutcome,
           fetch \in CallOutcome :
          \E data \in IF native = "ok"
                        THEN NativeRanked(content_chunks, query_embedding,
                                          limit, concept_id, threshold)
                        ELSE {<<>>} :
            similarity_search(query_embedding, limit, concept_id, threshold,
                              native, data, fetch)

StoreSpec == Init /\ [][StoreNext]_vars

\* ------------------------------------------------ properties: VectorStore
Searched == call.op = "search"

\* The stored embedding of a returned row.
EmbeddingOf(hit) == content_chunks[hit.chunk_id].embedding

AllWellFormed ==
  \A i \in 1..Len(content_chunks) :
    WellFormed(content_chunks[i].embedding, call.query_embedding)

Ranked(result, threshold, limit) ==
  /\ \A i, j \in 1..Len(result) :
       i < j => result[i].similarity >= result[j].similarity
  /\ \A i \in 1..Len(result) : result[i].similarity >= threshold
  /\ Len(result) <= limit

\* C11: when the native call completes without error, also with zero rows,
\* the search returns the native result and makes no fallback fetch.
C11_FallbackOnlyOnError ==
  (Searched /\ call.native = "ok")
    => call.tier = "native" /\ call.trace = <<"native">>

\* C12: every search calls the native operator first and exactly once, then
\* the fallback scan at most once; nothing is retried.
C12_NativeOnceThenFallback ==
  Searched => call.trace \in {<<"native">>, <<"native", "fallback">>}

C12_Witness ==
  /\ Searched
  /\ call.native = "raise"
  /\ call.trace = <<"native", "fallback">>
  /\ call.result # <<>>

\* C13: the list a search returns is sorted by score, best first, holds only
\* scores >= threshold and has at most `limit` entries, whichever tier made it.
C13_RankingInvariant ==
  Searched => Ranked(call.result, call.threshold, call.limit)

\* The fallback cut a hit that reached the threshold.
C13_Witness ==
  /\ Searched
  /\ call.tier = "fallback"
  /\ call.limit >= 1
  /\ Len(call.result) = call.limit
  /\ \E i \in 1..Len(content_chunks) :
       /\ \A j \in 1..Len(call.result) : call.result[j].chunk_id # i
       /\ WellFormed(content_chunks[i].embedding, call.query_embedding)
       /\ call.concept_id \in {NoConcept, content_chunks[i].concept_id}
       /\ cosine_similarity(call.query_embedding,
                            content_chunks[i].embedding.v) >= call.threshold

\* C14: over stored chunks with well-formed embeddings the fallback scan
\* returns a ranking the native cosine operator returns for the same query,
\* threshold, limit and filter (hits of equal score in either order).
C14_FallbackEquivalence ==
  (Searched /\ call.tier = "fallback" /\ call.fetch = "ok" /\ AllWellFormed)
    => call.result \in NativeRanked(content_chunks, call.query_embedding,
                                    call.limit, call.concept_id,
                                    call.threshold)

\* The fallback ranks the later row first.
C14_Witness ==
  /\ Searched
  /\ call.tier = "fallback"
  /\ AllWellFormed
  /\ Len(call.result) >= 2
  /\ call.result[1].chunk_id > call.result[2].chunk_id
  /\ call.result[1].similarity > call.result[2].similarity

\* C15: a search never raises: when the native call raises it returns the
\* ranked list of the fallback scan, and when the fallback fetch fails too
\* it returns the empty list.
C15_SearchNeverRaises ==
  Searched =>
    /\ call.outcome = "returned"
    /\ call.native = "raise" =>
         /\ call.tier = "fallback"
         /\ Ranked(call.result, call.threshold, call.limit)
    /\ (call.tier = "fallback" /\ call.fetch = "raise") => call.result = <<>>

C15_Witness ==
  /\ Searched
  /\ call.native = "raise"
  /\ call.fetch = "raise"
  /\ call.outcome = "returned"
  /\ call.result = <<>>
  /\ content_chunks # <<>>

\* C16: the fallback scan never scores a stored chunk whose embedding is
\* malformed or of another dimension than the query: none is returned.
C16_SkipsMismatchedDimension ==
  (Searched /\ call.tier = "fallback") =>
    \A i \in 1..Len(call.result) :
      WellFormed(EmbeddingOf(call.result[i]), call.query_embedding)

\* An input chunk without a non-empty embedding.
LacksEmbedding(e) == e = NoVector \/ e.v = <<>>

\* C17: store_chunks raises and stores nothing whenever a chunk of its input
\* lacks a non-empty embedding.
C17_StoreFailsFast ==
  (call.op = "store"
   /\ \E i \in 1..Len(call.embeddings) : LacksEmbedding(call.embeddings[i]))
    => call.outcome = "raised" /\ call.stored = 0

\* ======================================== chunk, embed, store (end to end)
\* Lines 92-120 of process_document on their own: stamp the chunker's n
\* chunks, embed them, insert them, whatever the provider and the store
\* answer.  The rows stay in document_chunks from one call to the next.
EmbedAndStore(d, n, failBatch, shortBatch, ins) ==
  /\ call = NoCall
  /\ created < MaxRuns
  /\ failBatch <= (n + EmbedBatchSize - 1) \div EmbedBatchSize
  /\ shortBatch <= (n + EmbedBatchSize - 1) \div EmbedBatchSize
  /\ failBatch # 0 => shortBatch = 0 /\ ins = AllOk
  /\ \A i \in 1..MaxChunks :
       (i > n \/ \E j \in 1..(i - 1) : ins[j] = "raise") => ins[i] = "ok"
  /\ \E emb \in {embed_chunks(ChunkDrafts(d, n), failBatch, shortBatch)} :
     \E st \in {IF emb.raised
                  THEN [raised |-> TRUE, err |-> ErrEmbed,
                        rows |-> EmptyBag, chunk_ids |-> 0]
                  ELSE InsertLoop(d, emb.chunks, ins, 1, EmptyBag, 0)} :
       /\ document_chunks' = document_chunks (+) st.rows
       /\ call' = [op |-> "embed", doc |-> d, produced |-> n,
                   failBatch |-> failBatch, shortBatch |-> shortBatch,
                   raised |-> st.raised, err |-> st.err,
                   stored |-> BagCardinality(st.rows)]
  /\ created' = created + 1
  /\ UNCHANGED <<teacher_documents, runs, event, content_chunks, loaderVars>>

\* The caller has taken the outcome of the call.
EmbedReturn ==
  /\ call # NoCall
  /\ call' = NoCall
  /\ UNCHANGED <<content_chunks, pipelineVars, loaderVars>>

EmbedNext ==
  \/ EmbedReturn
  \/ /\ call = NoCall
     /\ \E d \in DocIds, n \in 0..MaxChunks, failBatch \in 0..MaxChunks,
           shortBatch \in 0..MaxChunks,
           ins \in [1..MaxChunks -> InsertOutcome] :
          EmbedAndStore(d, n, failBatch, shortBatch, ins)

EmbedSpec == Init /\ [][EmbedNext]_vars

\* C18: every stored chunk carries the index the chunker gave it and the
\* vector the provider returned for its own content, also when the texts
\* span several batches or a response has fewer vectors than texts.
C18_VectorBelongsToChunk ==
  \A c \in BagToSet(document_chunks) :
    /\ c.content = <<c.document_id, c.chunk_index>>
    /\ c.embedding = Vec(c.content)

\* ===================================================================
\* MathChunker (data_processing/chunkers.py).  A text is a sequence of
\* characters; chunk_by_concept is computed character by character.
\* ===================================================================
MaxText == 6
MaxSize == 3

Alphabet == {"a", "b", "\n"}
Whitespace == {" ", "\n"}
Separator == <<"\n", "\n">>

Texts == UNION {[1..n -> Alphabet] : n \in 0..MaxText}

\* The k-th smallest element of a set of numbers.
Nth(S, k) == CHOOSE p \in S : Cardinality({q \in S : q < p}) = k - 1

\* str.strip(): leading and trailing whitespace removed.
LStrip(s) ==
  IF \A i \in 1..Len(s) : s[i] \in Whitespace THEN <<>>
  ELSE SubSeq(s, Nth({i \in 1..Len(s) : s[i] \notin Whitespace}, 1), Len(s))

RStrip(s) ==
  IF \A i \in 1..Len(s) : s[i] \in Whitespace THEN <<>>
  ELSE SubSeq(s, 1, CHOOSE i \in 1..Len(s) :
                      /\ s[i] \notin Whitespace
                      /\ \A j \in (i + 1)..Len(s) : s[j] \in Whitespace)

Strip(s) == RStrip(LStrip(s))

\* s[-n:] for n > 0: the last n characters, all of s when it is shorter.
Suffix(s, n) == IF n >= Len(s) THEN s ELSE SubSeq(s, Len(s) - n + 1, Len(s))

\* The pieces of s between the separator characters at the positions seps:
\* the maximal runs of other characters, in order, with an empty piece in
\* front when s begins with a separator (or is empty) and one at the end
\* when s ends with a separator.
Pieces(s, seps) ==
  LET starts == {p \in 1..Len(s) : p \notin seps /\ (p = 1 \/ p - 1 \in seps)}
      EndOf(p) == CHOOSE q \in p..Len(s) :
                    /\ q = Len(s) \/ q + 1 \in seps
                    /\ \A r \in p..(q - 1) : r + 1 \notin seps
  IN (IF s = <<>> \/ 1 \in seps THEN <<<<>>>> ELSE <<>>)
     \o [k \in 1..Cardinality(starts) |->
           SubSeq(s, Nth(starts, k), EndOf(Nth(starts, k)))]
     \o (IF s # <<>> /\ Len(s) \in seps THEN <<<<>>>> ELSE <<>>)

\* re.split on the boundary pattern.  In the texts used here only its first
\* alternative, a run of two or more newlines, can match: the others need a
\* capital letter followed by a colon after a newline, or one of the words
\* Definition, Theorem, Example, Proof, Solution.
Split(text) ==
  Pieces(text, {i \in 1..Len(text) :
                  /\ text[i] = "\n"
                  /\ \/ i < Len(text) /\ text[i + 1] = "\n"
                     \/ i > 1 /\ text[i - 1] = "\n"})

\* The sections the loop works on: stripped, the empty ones skipped.
Segments(text) ==
  SelectSeq([i \in 1..Len(Split(text)) |-> Strip(Split(text)[i])],
            LAMBDA section : section # <<>>)

\* A plausible bug: the chunk loses its last character.
ConceptChunkCut(current_chunk, chunk_index) ==
  [content |-> SubSeq(Strip(current_chunk), 1, Len(Strip(current_chunk)) - 1),
   chunk_index |-> chunk_index, chunk_type |-> "concept"]

ConceptChunk(current_chunk, chunk_index) ==
  [content |-> Strip(current_chunk), chunk_index |-> chunk_index,
   chunk_type |-> "concept"]

\* The loop over the sections and the final chunk.
RECURSIVE ConceptLoop(_, _, _, _, _, _)
ConceptLoop(sections, chunk_size, chunk_overlap, i, current_chunk, chunks) ==
  IF i > Len(sections)
    THEN IF current_chunk # <<>>
           THEN Append(chunks, ConceptChunk(current_chunk, Len(chunks)))
           ELSE chunks
  ELSE IF current_chunk # <<>> /\ Len(current_chunk) + Len(sections[i]) > chunk_size
    THEN ConceptLoop(sections, chunk_size, chunk_overlap, i + 1,
                     IF chunk_overlap > 0
                       THEN Suffix(current_chunk, chunk_overlap) \o Separator \o sections[i]
                       ELSE sections[i],
                     Append(chunks, ConceptChunk(current_chunk, Len(chunks))))
  ELSE ConceptLoop(sections, chunk_size, chunk_overlap, i + 1,
                   IF current_chunk # <<>>
                     THEN current_chunk \o Separator \o sections[i]
                     ELSE sections[i],
                   chunks)

\* MathChunker(chunk_size, chunk_overlap).chunk_by_concept(text, _): the
\* constructor keeps the two numbers as they come.
chunk_by_concept(text, chunk_size, chunk_overlap) ==
  /\ call = NoCall
  /\ call' = [op |-> "chunk", text |-> text, chunk_size |-> chunk_size,
              chunk_overlap |-> chunk_overlap,
              chunks |-> ConceptLoop(Segments(text), chunk_size, chunk_overlap,
                                     1, <<>>, <<>>)]
  /\ UNCHANGED <<content_chunks, pipelineVars, loaderVars>>

\* str.split(): the maximal runs of non-whitespace characters.
Words(text) ==
  SelectSeq(Pieces(text, {i \in 1..Len(text) : text[i] \in Whitespace}),
            LAMBDA word : word # <<>>)

\* ' '.join(words)
RECURSIVE JoinWords(_)
JoinWords(words) ==
  IF words = <<>> THEN <<>>
  ELSE IF Len(words) = 1 THEN words[1]
  ELSE words[1] \o <<" ">> \o JoinWords(Tail(words))

\* current_chunk[-self.chunk_overlap // 10:] for chunk_overlap > 0: Python
\* negates first and floors then, so the last ceil(chunk_overlap / 10) words.
OverlapWords(current_chunk, chunk_overlap) ==
  Suffix(current_chunk, (chunk_overlap + 9) \div 10)

SimpleChunk(current_chunk, chunk_index) ==
  [content |-> JoinWords(current_chunk), chunk_index |-> chunk_index,
   chunk_type |-> "simple"]

\* The loop of chunk_simple over the words and its final chunk.
RECURSIVE SimpleLoop(_, _, _, _, _, _, _)
SimpleLoop(words, chunk_size, chunk_overlap, i, current_chunk, current_length, chunks) ==
  IF i > Len(words)
    THEN IF current_chunk # <<>>
           THEN Append(chunks, SimpleChunk(current_chunk, Len(chunks)))
           ELSE chunks
  ELSE IF current_length + Len(words[i]) + 1 > chunk_size /\ current_chunk # <<>>
    THEN IF chunk_overlap > 0
           THEN SimpleLoop(words, chunk_size, chunk_overlap, i + 1,
                           Append(OverlapWords(current_chunk, chunk_overlap), words[i]),
                           Len(JoinWords(Append(OverlapWords(current_chunk, chunk_overlap),
                                                words[i]))),
                           Append(chunks, SimpleChunk(current_chunk, Len(chunks))))
           ELSE SimpleLoop(words, chunk_size, chunk_overlap, i + 1,
                           <<words[i]>>, Len(words[i]) + 1,
                           Append(chunks, SimpleChunk(current_chunk, Len(chunks))))
  ELSE SimpleLoop(words, chunk_size, chunk_overlap, i + 1,
                  Append(current_chunk, words[i]),
                  current_length + Len(words[i]) + 1, chunks)

\* MathChunker(chunk_size, chunk_overlap).chunk_simple(text, _).
chunk_simple(text, chunk_size, chunk_overlap) ==
  /\ call = NoCall
  /\ call' = [op |-> "chunk_simple", text |-> text, chunk_size |-> chunk_size,
              chunk_overlap |-> chunk_overlap,
              chunks |-> SimpleLoop(Words(text), chunk_size, chunk_overlap,
                                    1, <<>>, 0, <<>>)]
  /\ UNCHANGED <<content_chunks, pipelineVars, loaderVars>>

\* The chunker of ContentProcessor: MathChunker(chunk_size=500,
\* chunk_overlap=50), and a text of 600 letters without any whitespace.
LoaderChunkSize == 500
LoaderChunkOverlap == 50

LongText == [i \in 1..600 |-> "A"]

ChunkNext ==
  \/ Return
  \/ /\ call = NoCall
     /\ \E text \in Texts, chunk_size \in 1..MaxSize, chunk_overlap \in 0..MaxSize :
          chunk_by_concept(text, chunk_size, chunk_overlap)
  \/ /\ call = NoCall
     /\ \E text \in Texts, chunk_size \in 1..MaxSize, chunk_overlap \in 0..MaxSize :
          chunk_simple(text, chunk_size, chunk_overlap)
  \/ /\ call = NoCall
     /\ chunk_by_concept(LongText, LoaderChunkSize, LoaderChunkOverlap)
  \/ /\ call = NoCall
     /\ chunk_simple(LongText, LoaderChunkSize, LoaderChunkOverlap)

ChunkSpec == Init /\ [][ChunkNext]_vars

\* ------------------------------------------------- properties: MathChunker
Chunked == call.op = "chunk"

ChunkedAny == call.op \in {"chunk", "chunk_simple"}

\* C20: with chunk_overlap < chunk_size, every chunk that chunk_by_concept
\* returns is at most chunk_size characters long, unless it is one single
\* section of the text that is itself longer than chunk_size.
C20_ChunkWithinMaxSize ==
  (Chunked /\ call.chunk_overlap < call.chunk_size) =>
    \A i \in 1..Len(call.chunks) :
      \/ Len(call.chunks[i].content) <= call.chunk_size
      \/ \E j \in 1..Len(Segments(call.text)) :
           call.chunks[i].content = Segments(call.text)[j]

\* The chunks a call returned, and the configuration is a valid one.
ValidConfig == call.chunk_overlap < call.chunk_size

\* cur begins with the last k characters of prev, for some k from 1 (0 when
\* there is no overlap) up to overlap.
SharesOverlap(prev, cur, overlap) ==
  \E k \in (IF overlap > 0 THEN 1 ELSE 0)..Min(overlap, Min(Len(prev), Len(cur))) :
    SubSeq(cur, 1, k) = Suffix(prev, k)

\* C21: in every chunk list either chunker returns for a valid
\* configuration, each chunk but the first begins with the end of the chunk
\* before it, and that shared text is at most chunk_overlap characters long.
C21_OverlapIsSuffix ==
  (ChunkedAny /\ ValidConfig) =>
    \A i \in 2..Len(call.chunks) :
      SharesOverlap(call.chunks[i - 1].content, call.chunks[i].content,
                    call.chunk_overlap)

\* Segments put end to end with the separator between them.
RECURSIVE JoinSegments(_)
JoinSegments(segs) ==
  IF Len(segs) = 1 THEN segs[1]
  ELSE segs[1] \o Separator \o JoinSegments(Tail(segs))

\* The chunks from the i-th on are made of the segments after the j-th, each
\* chunk of one or more whole segments in order, after at most overlap
\* characters of the chunk before it; a segment longer than size shares its
\* chunk with no other segment; no segment is left over.
RECURSIVE Covers(_, _, _, _, _, _)
Covers(chunks, i, segs, j, size, overlap) ==
  IF i > Len(chunks) THEN j = Len(segs)
  ELSE \E m \in 1..(Len(segs) - j) :
         /\ m > 1 => \A n \in (j + 1)..(j + m) : Len(segs[n]) <= size
         /\ \/ chunks[i].content = JoinSegments(SubSeq(segs, j + 1, j + m))
            \/ /\ i > 1
               /\ \E k \in 1..Min(overlap, Len(chunks[i - 1].content)) :
                    chunks[i].content =
                      Suffix(chunks[i - 1].content, k) \o Separator
                        \o JoinSegments(SubSeq(segs, j + 1, j + m))
         /\ Covers(chunks, i + 1, segs, j + m, size, overlap)

C23_LongTextTwoChunks ==
  (ChunkedAny /\ call.text = LongText /\ call.chunk_size = 500
   /\ call.chunk_overlap = 50) =>
    /\ Len(call.chunks) = 2
    /\ SubSeq(call.chunks[2].content, 1, 50) = Suffix(call.chunks[1].content, 50)

\* C24: with chunk_overlap >= chunk_size no chunk operation returns a chunk.
C24_InvalidConfigRejected ==
  (ChunkedAny /\ call.chunk_overlap >= call.chunk_size) => call.chunks = <<>>

\* ===================================================================
\* ContentProcessor (scripts/bulk_loader.py).  process_and_load_batch
\* submits one job per item to a thread pool; the jobs run concurrently,
\* each in three steps (the select and the insert of _get_or_create_concept,
\* then chunking, embedding and storing), and the caller collects their
\* results in submission order.
\* ===================================================================
MaxItems == 2

max_workers == 5

ConceptNames == {"algebra", "geometry"}

\* A MathContent item; only its concept_name tells items apart here.
MathContents == [concept_name : ConceptNames]

Batches == UNION {[1..n -> MathContents] : n \in 0..MaxItems}

\* Where the rest of a job can fail: chunk_by_difficulty, embed_chunks,
\* store_chunks, _store_practice_problems.
LoadOutcome == {"ok", "chunk", "embed", "store", "practice"}

\* The embedding of the one chunk a job stores.
JobEmbedding == List(<<1, 0>>)

Submitted(math_content) ==
  [math_content |-> math_content, pc |-> "queued", concept_id |-> NoConcept,
   failed |-> NoErr, raised |-> FALSE, value |-> <<>>]

\* The job returned its success message.
Loaded(job) ==
  [job EXCEPT !.pc = "done",
              !.value = <<"Successfully loaded", job.math_content.concept_name>>]

\* The except clause of _process_single_content: every Exception raised in
\* step e is logged and turned into the job's return value.
CaughtReraised(job, e) ==
  [job EXCEPT !.pc = "done", !.failed = e, !.raised = TRUE]

Caught(job, e) ==
  [job EXCEPT !.pc = "done", !.failed = e,
              !.value = <<"Failed", job.math_content.concept_name>>]

\* A plausible bug: the select has no filter on the name.
ByNameAny(name) == math_concepts

\* The rows of math_concepts with this name, in table order.
ByName(name) == SelectSeq(math_concepts, LAMBDA row : row.name = name)

Busy == {i \in 1..Len(futures) : futures[i].pc \notin {"queued", "done"}}

process_and_load_batch(math_contents) ==
  /\ load_batch = NoBatch
  /\ load_batch' = [pc |-> "collect", math_contents |-> math_contents, next |-> 1]
  /\ futures' = [i \in 1..Len(math_contents) |-> Submitted(math_contents[i])]
  /\ batch_results' = <<>>
  /\ UNCHANGED <<math_concepts, pipelineVars, libraryVars>>

\* A free worker takes the oldest queued job, which runs the select of
\* _get_or_create_concept.
JobSelect(i, sel) ==
  /\ futures[i].pc = "queued"
  /\ \A j \in 1..(i - 1) : futures[j].pc # "queued"
  /\ Cardinality(Busy) < max_workers
  /\ \E data \in {ByName(futures[i].math_content.concept_name)} :
       futures' =
         [futures EXCEPT ![i] =
            IF sel = "raise" THEN Caught(@, "select")
            ELSE IF data # <<>>
              THEN [@ EXCEPT !.pc = "load", !.concept_id = data[1].concept_id]
              ELSE [@ EXCEPT !.pc = "insert"]]
  /\ UNCHANGED <<math_concepts, load_batch, batch_results, pipelineVars, libraryVars>>

\* The insert of _get_or_create_concept; an insert that returns no row makes
\* the job raise.
JobInsert(i, ins) ==
  /\ futures[i].pc = "insert"
  /\ math_concepts' =
       IF ins = "ok"
         THEN Append(math_concepts,
                     [concept_id |-> Len(math_concepts) + 1,
                      name |-> futures[i].math_content.concept_name])
         ELSE math_concepts
  /\ futures' =
       [futures EXCEPT ![i] =
          IF ins = "ok"
            THEN [@ EXCEPT !.pc = "load", !.concept_id = Len(math_concepts) + 1]
            ELSE Caught(@, "insert")]
  /\ UNCHANGED <<load_batch, batch_results, pipelineVars, libraryVars>>

\* The rest of the job: chunk, embed, store, practice problems.
JobLoad(i, load) ==
  /\ futures[i].pc = "load"
  /\ \E st \in {StoreLoop(Chunks(<<JobEmbedding>>), futures[i].concept_id,
                          <<IF load = "store" THEN "raise" ELSE "ok">>, 1,
                          content_chunks, <<>>)} :
       content_chunks' =
         IF load \in {"chunk", "embed"} THEN content_chunks ELSE st.table
  /\ futures' =
       [futures EXCEPT ![i] = IF load = "ok" THEN Loaded(@) ELSE Caught(@, load)]
  /\ UNCHANGED <<math_concepts, load_batch, batch_results, call, pipelineVars>>

\* The caller's loop over the futures: future.result() waits for the job,
\* appends what it returned, and only logs what it raised.
Collect ==
  /\ load_batch.pc = "collect"
  /\ load_batch.next <= Len(futures)
  /\ futures[load_batch.next].pc = "done"
  /\ batch_results' = IF futures[load_batch.next].raised
                  THEN batch_results
                  ELSE Append(batch_results, futures[load_batch.next].value)
  /\ load_batch' = [load_batch EXCEPT !.next = @ + 1]
  /\ UNCHANGED <<math_concepts, futures, pipelineVars, libraryVars>>

\* The end of the with block and the return of the list.
BatchReturn ==
  /\ load_batch.pc = "collect"
  /\ load_batch.next > Len(futures)
  /\ \A i \in 1..Len(futures) : futures[i].pc = "done"
  /\ load_batch' = [load_batch EXCEPT !.pc = "returned"]
  /\ UNCHANGED <<math_concepts, futures, batch_results, pipelineVars, libraryVars>>

LoaderNext ==
  \/ \E math_contents \in Batches : process_and_load_batch(math_contents)
  \/ \E i \in 1..Len(futures), sel \in CallOutcome : JobSelect(i, sel)
  \/ \E i \in 1..Len(futures), ins \in InsertOutcome : JobInsert(i, ins)
  \/ \E i \in 1..Len(futures), load \in LoadOutcome : JobLoad(i, load)
  \/ Collect
  \/ BatchReturn

LoaderSpec == Init /\ [][LoaderNext]_vars

\* ---------------------------------------------- properties: ContentProcessor
BatchReturned == load_batch.pc = "returned"

\* C19: when process_and_load_batch returns, every job has run to its end,
\* the list holds one outcome per input item in input order, and an item's
\* outcome is a failure exactly when a step of its own job failed.
C19_FailureIsolation ==
  BatchReturned =>
    /\ Len(batch_results) = Len(load_batch.math_contents)
    /\ \A i \in 1..Len(load_batch.math_contents) :
         /\ futures[i].pc = "done"
         /\ i <= Len(batch_results)
         /\ batch_results[i][2] = load_batch.math_contents[i].concept_name
         /\ batch_results[i][1] = "Failed" <=> futures[i].failed # NoErr
         /\ batch_results[i][1] = "Successfully loaded" <=> futures[i].failed = NoErr

\* A batch returned in which an item failed and a later item was loaded.
C19_Witness ==
  /\ BatchReturned
  /\ \E i, j \in 1..Len(batch_results) :
       /\ i < j
       /\ batch_results[i][1] = "Failed"
       /\ batch_results[j][1] = "Successfully loaded"

\* C30: math_concepts never holds two rows with one name, and two jobs of
\* one concept name that both got a concept_id got the same one, whatever
\* the interleaving of the jobs.
C30_OneConceptPerName ==
  /\ \A i, j \in 1..Len(math_concepts) :
       math_concepts[i].name = math_concepts[j].name => i = j
  /\ \A i, j \in 1..Len(futures) :
       (/\ futures[i].math_content.concept_name = futures[j].math_content.concept_name
        /\ futures[i].concept_id # NoConcept
        /\ futures[j].concept_id # NoConcept)
         => futures[i].concept_id = futures[j].concept_id

\* ------------------------------------------ properties: store_chunks prefix
StoreRaised == call.op = "store" /\ call.outcome = "raised"

\* The embeddings of the rows the last store_chunks call left in the table.
RowsOfCall ==
  [k \in 1..call.stored |->
     content_chunks[Len(content_chunks) - call.stored + k].embedding]

\* The positions before the raise whose insert the store answered with a row.
RECURSIVE Accepted(_, _, _)
Accepted(embeddings, ins, n) ==
  IF n = 0 THEN <<>>
  ELSE IF ins[n] = "ok"
    THEN Append(Accepted(embeddings, ins, n - 1), embeddings[n])
    ELSE Accepted(embeddings, ins, n - 1)

C26_EmptyTextIsFatal ==
  (/\ event.op = "finish"
   /\ event.err # ErrExtract
   /\ teacher_documents[event.doc].file \in {Absent, 0})
    => /\ event.calls = 0
       /\ event.stored = 0
       /\ teacher_documents[event.doc].status = "failed"

\* ===================================================================
\* EmbeddingGenerator.generate_embeddings_batch on its own: any list of
\* texts, any positive batch size, any provider call failing or short.
\* ===================================================================
MaxTexts == 3
MaxBatch == 2

TextValues == {"t1", "t2"}

TextLists == UNION {[1..n -> TextValues] : n \in 0..MaxTexts}

EmbedBatch(texts, batch_size, failBatch, shortBatch) ==
  /\ call = NoCall
  /\ failBatch <= (Len(texts) + batch_size - 1) \div batch_size
  /\ shortBatch <= (Len(texts) + batch_size - 1) \div batch_size
  /\ failBatch # 0 => shortBatch < failBatch
  /\ \E res \in {generate_embeddings_batch(texts, batch_size, failBatch,
                                           shortBatch)} :
       call' = [op |-> "embed_batch", texts |-> texts,
                batch_size |-> batch_size, failBatch |-> failBatch,
                shortBatch |-> shortBatch, raised |-> res.raised,
                embeddings |-> res.embeddings, sent |-> res.sent]
  /\ UNCHANGED <<content_chunks, pipelineVars, loaderVars>>

BatchNext ==
  \/ Return
  \/ /\ call = NoCall
     /\ \E texts \in TextLists, batch_size \in 1..MaxBatch,
           failBatch \in 0..MaxTexts, shortBatch \in 0..MaxTexts :
          EmbedBatch(texts, batch_size, failBatch, shortBatch)

BatchSpec == Init /\ [][BatchNext]_vars

\* --------------------------------- properties: generate_embeddings_batch
RECURSIVE Flatten(_)
Flatten(ss) == IF ss = <<>> THEN <<>> ELSE Head(ss) \o Flatten(Tail(ss))

\* C27: every provider call carries between 1 and batch_size texts; the
\* calls taken together are the input texts, each once and in input order
\* (up to and including the failing call when one fails, and no call after
\* it); on success the result is the responses put end to end in call
\* order, one vector per text in input order when no response is short.
C27_BatchedInOrder ==
  call.op = "embed_batch" =>
    /\ \A k \in 1..Len(call.sent) : Len(call.sent[k]) \in 1..call.batch_size
    /\ \A k \in 1..(Len(call.sent) - 1) : Len(call.sent[k]) = call.batch_size
    /\ Flatten(call.sent) = SubSeq(call.texts, 1, Len(Flatten(call.sent)))
    /\ call.raised => Len(call.sent) = call.failBatch /\ call.embeddings = <<>>
    /\ ~call.raised =>
         /\ Flatten(call.sent) = call.texts
         /\ call.embeddings =
              Flatten([k \in 1..Len(call.sent) |->
                         ProviderCreate(call.sent[k], call.shortBatch = k)])
    /\ (~call.raised /\ call.shortBatch = 0) =>
         call.embeddings = [i \in 1..Len(call.texts) |-> Vec(call.texts[i])]

\* Three texts went out in two calls and the second call failed.
C27_Witness ==
  /\ call.op = "embed_batch"
  /\ Len(call.texts) = 3
  /\ call.batch_size = 2
  /\ call.raised
  /\ Len(call.sent) = 2

\* ===================================================================
\* ContentRetriever.retrieve (rag_engine/retriever.py) over a table that
\* store_chunks has filled.
\* ===================================================================
MaxStored == 6
MaxLimit == 6

SearchCap == 5

\* search_limit = min(limit, 5) (line 42).
search_limit_uncapped(limit) == limit

search_limit(limit) == Min(limit, SearchCap)

\* store_chunks of n chunks that all have an embedding, every insert answered
\* with its row, into the empty table.
StoreMany(n, concept_id) ==
  /\ call = NoCall
  /\ content_chunks = <<>>
  /\ \E st \in {StoreLoop(Chunks([i \in 1..n |-> JobEmbedding]), concept_id,
                          [i \in 1..n |-> "ok"], 1, content_chunks, <<>>)} :
       /\ content_chunks' = st.table
       /\ call' = [op |-> "store", embeddings |-> [i \in 1..n |-> JobEmbedding],
                   ins |-> [i \in 1..n |-> "ok"], outcome |-> "returned",
                   at |-> st.at, stored |-> n, chunk_ids |-> st.chunk_ids]
  /\ UNCHANGED <<pipelineVars, loaderVars>>

\* retrieve: embed the query (embed = "raise": the provider call fails and
\* retrieve raises), cap the limit, search, hand back what the search gave.
retrieve(query_embedding, embed, limit, concept_id, threshold, native, fetch) ==
  /\ call = NoCall
  /\ embed = "raise" => native = "ok" /\ fetch = "ok"
  /\ \E data \in IF embed = "ok" /\ native = "ok"
                   THEN NativeRanked(content_chunks, query_embedding,
                                     search_limit(limit), concept_id, threshold)
                   ELSE {<<>>} :
       /\ (native = "ok" /\ data # <<>>) => fetch = "ok"
       /\ \E res \in {Search(content_chunks, query_embedding,
                             search_limit(limit), concept_id, threshold,
                             native, data, fetch)} :
            call' = IF embed = "raise"
                      THEN [op |-> "retrieve", limit |-> limit,
                            outcome |-> "raised", search_limit |-> 0,
                            tier |-> "none", result |-> <<>>]
                      ELSE [op |-> "retrieve", limit |-> limit,
                            outcome |-> "returned",
                            search_limit |-> search_limit(limit),
                            tier |-> res.tier, result |-> res.result]
  /\ UNCHANGED <<content_chunks, pipelineVars, loaderVars>>

RetrieveNext ==
  \/ Return
  \/ /\ call = NoCall
     /\ content_chunks = <<>>
     /\ \E n \in 1..MaxStored, concept_id \in Concepts : StoreMany(n, concept_id)
  \/ /\ call = NoCall
     /\ \E query_embedding \in QueryVectors, embed \in CallOutcome,
           limit \in 0..MaxLimit, concept_id \in Concepts \cup {NoConcept},
           threshold \in Thresholds, native \in CallOutcome,
           fetch \in CallOutcome :
          retrieve(query_embedding, embed, limit, concept_id, threshold,
                   native, fetch)

RetrieveSpec == Init /\ [][RetrieveNext]_vars

\* ------------------------------------------ properties: ContentRetriever
\* C25: a retrieve call that returns passed a limit of at most 5 and at most
\* the caller's limit to similarity_search, and returns at most min(limit, 5)
\* chunks, from the native tier and from the fallback alike.
C25_RetrieveCapped ==
  (call.op = "retrieve" /\ call.outcome = "returned") =>
    /\ call.search_limit <= 5
    /\ call.search_limit <= call.limit
    /\ Len(call.result) <= Min(call.limit, 5)

\* More than 5 chunks match, the caller asked for more than 5, the fallback
\* answered, and 5 came back.
C25_Witness ==
  /\ call.op = "retrieve"
  /\ call.limit > 5
  /\ call.tier = "fallback"
  /\ Len(content_chunks) > 5
  /\ Len(call.result) = 5

\* ===================================================================
\* Runs for several Sources side by side: the document pipeline with every
\* document id in use, or the bulk loader's batch.  The two work on different
\* tables and are different programs (the API server and a script), so a
\* behaviour has one or the other.  Every document is processed by the run
\* its upload schedules.
\* ===================================================================
FrameNext ==
  \/ /\ load_batch = NoBatch
     /\ \E file \in Files, ctor \in CallOutcome,
           fallback \in CallOutcome :
          upload_document(file, ctor, fallback)
  \/ \E r \in BagToSet(runs) :
       /\ r.pc = "scheduled"
       /\ \E fetch \in CallOutcome, check \in CallOutcome,
             upd \in CallOutcome, fw \in CallOutcome :
            ProcStart(r, fetch, check, upd, fw)
  \/ \E r \in BagToSet(runs) :
       /\ r.pc = "extracting"
       /\ \E ext \in CallOutcome :
            \E failBatch \in IF ext = "ok" THEN 0..MaxChunks ELSE {0} :
              \E ins \in IF ext = "ok" /\ failBatch = 0
                            THEN [1..MaxChunks -> InsertOutcome]
                            ELSE {AllOk} :
                \E fin \in CallOutcome, fw \in CallOutcome :
                  ProcFinish(r, ext, failBatch, ins, fin, fw)
  \/ /\ FreeDocs = DocIds
     /\ LoaderNext

FrameSpec == Init /\ [][FrameNext]_vars

\* ------------------------------------------------- properties: frame
\* A step of process_document for document event'.doc leaves the record and
\* the chunks of every other document as they were.
PipelineFrame ==
  (/\ event'.op \in {"start", "finish"}
   /\ teacher_documents' # teacher_documents \/ document_chunks' # document_chunks)
    => \A e \in DocIds \ {event'.doc} :
         /\ teacher_documents'[e] = teacher_documents[e]
         /\ \A c \in BagToSet(document_chunks) \cup BagToSet(document_chunks') :
              c.document_id = e =>
                CopiesIn(c, document_chunks') = CopiesIn(c, document_chunks)

\* The jobs whose record this step changed.
Acting == {i \in 1..Len(futures) :
             i <= Len(futures') /\ futures'[i] # futures[i]}

\* A step of a loader job keeps every row of content_chunks and of
\* math_concepts that was there, and the rows it adds belong to the concept
\* of the job's own item.
LoaderFrame ==
  /\ Len(content_chunks') >= Len(content_chunks)
  /\ SubSeq(content_chunks', 1, Len(content_chunks)) = content_chunks
  /\ Len(math_concepts') >= Len(math_concepts)
  /\ SubSeq(math_concepts', 1, Len(math_concepts)) = math_concepts
  /\ load_batch' # NoBatch =>
       /\ \A k \in (Len(math_concepts) + 1)..Len(math_concepts') :
            \E i \in Acting :
              math_concepts'[k].name = futures[i].math_content.concept_name
       /\ \A k \in (Len(content_chunks) + 1)..Len(content_chunks') :
            \E i \in Acting :
              /\ content_chunks'[k].concept_id \in 1..Len(math_concepts)
              /\ math_concepts[content_chunks'[k].concept_id].name
                   = futures[i].math_content.concept_name

\* C28: a step of a pipeline run changes chunks and status/metadata of its
\* own Source only, for process_document and for the loader's jobs, also
\* while runs for other Sources are in flight.
C28_SourceFrame == [][PipelineFrame /\ LoaderFrame]_vars

\* A run stored chunks for its document while a run for another document
\* was between its download and its end.
C28_Witness ==
  /\ event.op = "finish"
  /\ event.stored > 0
  /\ \E r \in BagToSet(runs) : r.doc # event.doc /\ r.pc = "extracting"

====
